---- MODULE Spec2Model ----
(***************************************************************************)
(* A model of lambda/app.py: the request pipeline of lambda_handler (IP    *)
(* allow-list, body parsing, API-key check, message normalisation, the     *)
(* memoised Eliza engine state, token estimation and the two response      *)
(* encodings), one action per step of the handler.                         *)
(*                                                                         *)
(* Representation of Python values:                                        *)
(*   - a str is a sequence of symbols (one-character strings);             *)
(*   - a decoded JSON value is a record tagged by t: "null", "num", "bool",*)
(*     "str", "list", and the dict shapes "dict" (a payload), "msg" (a     *)
(*     message) and "part" (a content part);  a key that is absent reads   *)
(*     as None through dict.get, so absent and null share one value;       *)
(*   - an IP literal is its groups (4 of 8 bits, or 8 of 16 bits), a CIDR  *)
(*     literal an IP literal and a prefix length; a comma-separated string *)
(*     is the sequence of its fields, each with its surrounding whitespace.*)
(***************************************************************************)
EXTENDS Integers, Sequences, FiniteSets, TLC

VARIABLES pc, event, env, caller_ip, payload, user_input, engine,
          response_text, result, ELIZA_STATE, eliza_setup, initRuns, stages

vars == <<pc, event, env, caller_ip, payload, user_input, engine,
          response_text, result, ELIZA_STATE, eliza_setup, initRuns, stages>>

(***************************************************************************)
(* Bounds of the model.                                                    *)
(***************************************************************************)
MaxInitRuns == 2
MaxReplyLen == 3
MaxMsgs == 2
MaxCidrs == 2

(***************************************************************************)
(* Python values.                                                          *)
(***************************************************************************)
None == [t |-> "null"]
JStr(s) == [t |-> "str", s |-> s]
JNum(n) == [t |-> "num", n |-> n]
JBool(b) == [t |-> "bool", b |-> b]
JList(l) == [t |-> "list", l |-> l]
JDict(m, s) == [t |-> "dict", messages |-> m, stream |-> s]
JMsg(r, c) == [t |-> "msg", role |-> r, content |-> c]
JPart(x, c, p) == [t |-> "part", text |-> x, content |-> c, parts |-> p]

EmptyDict == JDict(None, None)

\* isinstance(x, str), isinstance(x, dict), isinstance(x, list)
IsStr(x) == x.t = "str"
IsDict(x) == x.t \in {"dict", "msg", "part"}
IsList(x) == x.t = "list"

\* dict.get(key): the value, or None when the key is absent
Get(d, key) == IF key \in DOMAIN d THEN d[key] ELSE None

\* Python truthiness (bool(x))
Truthy(x) ==
  CASE x.t = "null" -> FALSE
    [] x.t = "num" -> x.n # 0
    [] x.t = "bool" -> x.b
    [] x.t = "str" -> x.s # <<>>
    [] x.t = "list" -> x.l # <<>>
    [] OTHER -> x # EmptyDict

(***************************************************************************)
(* str methods.                                                            *)
(***************************************************************************)
IsSpace(c) == c \in {" ", "\n"}

RECURSIVE SplitFrom(_, _, _, _)
SplitFrom(s, i, cur, acc) ==
  IF i > Len(s)
  THEN IF cur = <<>> THEN acc ELSE Append(acc, cur)
  ELSE IF IsSpace(s[i])
       THEN SplitFrom(s, i + 1, <<>>, IF cur = <<>> THEN acc ELSE Append(acc, cur))
       ELSE SplitFrom(s, i + 1, Append(cur, s[i]), acc)

\* text.split(): the maximal runs of non-whitespace
split(s) == SplitFrom(s, 1, <<>>, <<>>)

RECURSIVE lstrip(_)
lstrip(s) == IF s # <<>> /\ IsSpace(Head(s)) THEN lstrip(Tail(s)) ELSE s

RECURSIVE rstrip(_)
rstrip(s) ==
  IF s # <<>> /\ IsSpace(s[Len(s)]) THEN rstrip(SubSeq(s, 1, Len(s) - 1)) ELSE s

\* text.strip()
strip(s) == rstrip(lstrip(s))

RECURSIVE join(_, _)
\* sep.join(pieces)
join(sep, pieces) ==
  IF pieces = <<>> THEN <<>>
  ELSE IF Len(pieces) = 1 THEN pieces[1]
  ELSE pieces[1] \o sep \o join(sep, Tail(pieces))

Digits == <<"0", "1", "2", "3", "4", "5", "6", "7", "8", "9">>

\* str(content) of a value that is no str, dict or list
str(x) ==
  CASE x.t = "num" -> <<Digits[x.n + 1]>>
    [] x.t = "bool" -> IF x.b THEN <<"T", "r", "u", "e">> ELSE <<"F", "a", "l", "s", "e">>
    [] OTHER -> <<>>

(***************************************************************************)
(* estimate_tokens                                                         *)
(***************************************************************************)
Max(a, b) == IF a >= b THEN a ELSE b

\* round(word_count * 1.33) in place of int(word_count * 1.33)
RoundTimes133(word_count) == (word_count * 133 + 50) \div 100

\* int(word_count * 1.33): the product truncated toward zero
TruncTimes133(word_count) == (word_count * 133) \div 100

estimate_tokens(text) ==
  IF text = <<>> THEN 0
  ELSE LET word_count == Len(split(text))
       IN Max(1, TruncTimes133(word_count))

(***************************************************************************)
(* _extract_text_from_content                                              *)
(***************************************************************************)
\* [p for p in parts if isinstance(p, str)]
StrElems(l) == [i \in 1..Len(SelectSeq(l, IsStr)) |-> SelectSeq(l, IsStr)[i].s]

\* the pieces one element of a list content contributes
ElemPieces(el) ==
  IF IsStr(el) THEN <<el.s>>
  ELSE IF ~IsDict(el) THEN <<>>
  ELSE IF IsStr(Get(el, "text")) THEN <<Get(el, "text").s>>
  ELSE IF IsStr(Get(el, "content")) THEN <<Get(el, "content").s>>
  ELSE IF IsList(Get(el, "parts")) THEN StrElems(Get(el, "parts").l)
  ELSE <<>>

RECURSIVE ListPieces(_)
\* the list `pieces` after the loop over the elements
ListPieces(l) == IF l = <<>> THEN <<>> ELSE ElemPieces(Head(l)) \o ListPieces(Tail(l))

extract_text_from_content(content) ==
  IF content = None THEN <<>>
  ELSE IF IsStr(content) THEN content.s
  ELSE IF IsDict(content)
       THEN IF IsStr(Get(content, "text")) THEN Get(content, "text").s
            ELSE IF IsStr(Get(content, "content")) THEN Get(content, "content").s
            ELSE IF IsList(Get(content, "parts"))
                 THEN join(<<" ">>, StrElems(Get(content, "parts").l))
                 ELSE <<>>
  ELSE IF IsList(content) THEN strip(join(<<" ">>, ListPieces(content.l)))
  ELSE str(content)

(***************************************************************************)
(* ipaddress: ip_address, ip_network(strict=False) and `ip in net`.        *)
(***************************************************************************)
IpLit(k, g) == [k |-> k, g |-> g]
CidrLit(a, p) == [a |-> a, p |-> p]
Field(pad, core) == [pad |-> pad, core |-> core]

EmptyIp == IpLit("empty", <<>>)
EmptyCidr == CidrLit(EmptyIp, -1)

\* the number of groups, and the bits of a group, of an address of a version
Groups(k) == IF k = "v4" THEN 4 ELSE 8
GroupBits(k) == IF k = "v4" THEN 8 ELSE 16
Width(k) == Groups(k) * GroupBits(k)

RECURSIVE Pow2(_)
Pow2(n) == IF n = 0 THEN 1 ELSE 2 * Pow2(n - 1)

\* whether the text of an address parses
ValidIpLit(a) ==
  /\ a.k \in {"v4", "v6"}
  /\ Len(a.g) = Groups(a.k)
  /\ \A i \in 1..Len(a.g) : a.g[i] >= 0 /\ a.g[i] < Pow2(GroupBits(a.k))

\* the bits of a parsed address, most significant first
AddrBits(a) ==
  [i \in 1..Width(a.k) |->
     (a.g[(i - 1) \div GroupBits(a.k) + 1]
        \div Pow2(GroupBits(a.k) - 1 - ((i - 1) % GroupBits(a.k)))) % 2]

\* ipaddress.ip_address(text): raises on surrounding whitespace or a bad literal
ip_address(f) ==
  IF ~f.pad /\ ValidIpLit(f.core)
  THEN [ok |-> TRUE, ver |-> f.core.k, bits |-> AddrBits(f.core)]
  ELSE [ok |-> FALSE, ver |-> "", bits |-> <<>>]

\* ipaddress.ip_network(text, strict=False): host bits are masked, not refused
ip_network(c) ==
  IF ValidIpLit(c.a) /\ c.p >= -1 /\ c.p <= Width(c.a.k)
  THEN LET plen == IF c.p = -1 THEN Width(c.a.k) ELSE c.p
       IN [ok |-> TRUE, ver |-> c.a.k, plen |-> plen,
           bits |-> [i \in 1..Width(c.a.k) |->
                       IF i <= plen THEN AddrBits(c.a)[i] ELSE 0]]
  ELSE [ok |-> FALSE, ver |-> "", plen |-> 0, bits |-> <<>>]

\* ip in net
InNet(ip, net) ==
  /\ ip.ver = net.ver
  /\ \A i \in 1..net.plen : ip.bits[i] = net.bits[i]

(***************************************************************************)
(* ip_allowed                                                              *)
(***************************************************************************)
\* the text '' of a comma-separated setting, and the literal '0.0.0.0/0'
EmptyCsv == <<Field(FALSE, EmptyCidr)>>
AllowAllLit == CidrLit(IpLit("v4", <<0, 0, 0, 0>>), 0)

\* allowed_cidrs.strip() == '0.0.0.0/0'
StripIsAllowAll(allowed_cidrs) ==
  Len(allowed_cidrs) = 1 /\ allowed_cidrs[1].core = AllowAllLit

NonEmptyField(f) == f.core # EmptyCidr

\* [c.strip() for c in allowed_cidrs.split(',') if c.strip()]
StrippedCidrs(allowed_cidrs) ==
  LET kept == SelectSeq(allowed_cidrs, NonEmptyField)
  IN [i \in 1..Len(kept) |-> kept[i].core]

RECURSIVE AnyCidrAborts(_, _)
\* the loop with the try around it instead of inside it: the first entry that
\* does not parse ends the check
AnyCidrAborts(ip, cidrs) ==
  IF cidrs = <<>> THEN FALSE
  ELSE LET net == ip_network(Head(cidrs))
       IN IF ~net.ok THEN FALSE
          ELSE IF InNet(ip, net) THEN TRUE
          ELSE AnyCidrAborts(ip, Tail(cidrs))

RECURSIVE AnyCidrMatches(_, _)
\* the loop over the entries: the first valid entry holding ip returns True,
\* an entry that does not parse is logged and skipped
AnyCidrMatches(ip, cidrs) ==
  IF cidrs = <<>> THEN FALSE
  ELSE LET net == ip_network(Head(cidrs))
       IN IF net.ok /\ InNet(ip, net) THEN TRUE
          ELSE AnyCidrMatches(ip, Tail(cidrs))

ip_allowed(ip, allowed_cidrs) ==
  IF allowed_cidrs = EmptyCsv THEN TRUE
  ELSE IF StripIsAllowAll(allowed_cidrs) THEN TRUE
  ELSE IF ~ip_address(ip).ok THEN FALSE
  ELSE AnyCidrMatches(ip_address(ip), StrippedCidrs(allowed_cidrs))

(***************************************************************************)
(* extract_caller_ip                                                       *)
(***************************************************************************)
EmptyXff == <<Field(FALSE, EmptyIp)>>
NoSource == [has |-> FALSE, ip |-> Field(FALSE, EmptyIp)]

\* a or b, of two header values
Or(a, b, empty) == IF a # empty THEN a ELSE b

extract_caller_ip(e) ==
  LET xff == Or(e.headers.XForwardedFor, e.headers.xforwardedfor, EmptyXff)
  IN IF xff # EmptyXff THEN Field(FALSE, xff[1].core)
     ELSE IF e.http.has THEN e.http.ip
     ELSE IF e.identity.has THEN e.identity.ip
     ELSE Field(FALSE, EmptyIp)

(***************************************************************************)
(* _build_sse_body                                                         *)
(***************************************************************************)
Min(a, b) == IF a <= b THEN a ELSE b

\* json.dumps of the delta content: a line break is written as \n
RECURSIVE JsonEscape(_)
JsonEscape(s) ==
  IF s = <<>> THEN <<>>
  ELSE (IF Head(s) = "\n" THEN <<"\\", "n">> ELSE <<Head(s)>>) \o JsonEscape(Tail(s))

\* 'data: ' + json.dumps(chunk_payload) + '\n\n'; "{" and "}" stand for the
\* payload around the delta content
SseChunk(seg) == <<"data: ", "{">> \o JsonEscape(seg) \o <<"}", "\n", "\n">>
SseDone == <<"data: ", "[DONE]", "\n", "\n">>

RECURSIVE SsePartsFullOnly(_, _, _)
\* the loop stopping before a last, shorter slice
SsePartsFullOnly(text, i, chunk_size) ==
  IF i + chunk_size > Len(text) THEN <<>>
  ELSE SseChunk(SubSeq(text, i + 1, i + chunk_size))
         \o SsePartsFullOnly(text, i + chunk_size, chunk_size)

RECURSIVE SseParts(_, _, _)
\* the loop for i in range(0, len(text), chunk_size), chunk_size > 0
SseParts(text, i, chunk_size) ==
  IF i >= Len(text) THEN <<>>
  ELSE SseChunk(SubSeq(text, i + 1, Min(i + chunk_size, Len(text))))
         \o SseParts(text, i + chunk_size, chunk_size)

\* range() raises ValueError on a step of 0 and is empty on a negative step
build_sse_body(text, chunk_size) ==
  IF text = <<>> THEN [raised |-> FALSE, body |-> SseDone]
  ELSE IF chunk_size = 0 THEN [raised |-> TRUE, body |-> <<>>]
  ELSE IF chunk_size < 0 THEN [raised |-> FALSE, body |-> SseDone]
  ELSE [raised |-> FALSE, body |-> SseParts(text, 0, chunk_size) \o SseDone]

(***************************************************************************)
(* Responses: make_response, and an exception that leaves lambda_handler.  *)
(***************************************************************************)
DefaultChunkSize == 64

NoUsage == [prompt_tokens |-> 0, completion_tokens |-> 0, total_tokens |-> 0]
NoBody == [error |-> [message |-> "", type |-> ""], content |-> <<>>,
           usage |-> NoUsage, sse |-> <<>>]
NoResult == [kind |-> "none", statusCode |-> 0,
             headers |-> [ContentType |-> "", CacheControl |-> ""],
             body |-> NoBody, exc |-> ""]

\* {'error': {'message': ..., 'type': ...}}
ErrorBody(message, type) ==
  [NoBody EXCEPT !.error = [message |-> message, type |-> type]]

make_response(status_code, body) ==
  [kind |-> "response", statusCode |-> status_code,
   headers |-> [ContentType |-> "application/json", CacheControl |-> ""],
   body |-> body, exc |-> ""]

\* an exception no handler catches: the invocation ends without a response
Raise(exc) == [NoResult EXCEPT !.kind = "exception", !.exc = exc]

(***************************************************************************)
(* The module globals and the locals of one invocation.                    *)
(***************************************************************************)
NoState == [set |-> FALSE, gen |-> 0]
NoEvent == [headers |-> [XForwardedFor |-> EmptyXff, xforwardedfor |-> EmptyXff,
                         Authorization |-> <<>>, authorization |-> <<>>],
            http |-> NoSource, identity |-> NoSource,
            body |-> [form |-> "struct", k |-> "", j |-> None]]
NoEnv == [ALLOWED_CALLER_CIDR |-> EmptyCsv, REQUIRE_API_KEY |-> "false",
          API_KEY |-> "", SSE_CHUNK_SIZE |-> [k |-> "unset", n |-> 0]]

Init ==
  /\ pc = "idle"
  /\ event = NoEvent
  /\ env = NoEnv
  /\ caller_ip = Field(FALSE, EmptyIp)
  /\ payload = None
  /\ user_input = <<>>
  /\ engine = NoState
  /\ response_text = <<>>
  /\ result = NoResult
  /\ ELIZA_STATE = NoState
  /\ eliza_setup \in BOOLEAN
  /\ initRuns = 0
  /\ stages = <<>>

\* s.lower() of a flag's text
Lower(s) ==
  CASE s = "TRUE" -> "true"
    [] s = "True" -> "true"
    [] s = "YES" -> "yes"
    [] OTHER -> s

\* os.environ.get(name, 'false').lower() in ('1', 'true', 'yes')
FlagSet(s) == Lower(s) \in {"1", "true", "yes"}

\* the return of a response or the escape of an exception ends the invocation
Finish(r) ==
  /\ result' = r
  /\ pc' = "done"

\* lambda_handler, lines 271-287: the caller's IP and the configuration are read
Start(e, c) ==
  /\ pc = "idle"
  /\ ELIZA_STATE.set \/ initRuns < MaxInitRuns
  /\ event' = e
  /\ env' = c
  /\ caller_ip' = extract_caller_ip(e)
  /\ pc' = "gate"
  /\ UNCHANGED <<payload, user_input, engine, response_text, result,
                 ELIZA_STATE, eliza_setup, initRuns, stages>>

\* lines 289-292: the allow-list check
IpCheck ==
  /\ pc = "gate"
  /\ stages' = Append(stages, "GATE_IP")
  /\ IF ~ip_allowed(caller_ip, env.ALLOWED_CALLER_CIDR)
     THEN Finish(make_response(403, ErrorBody("Caller IP not allowed", "forbidden")))
     ELSE pc' = "parse" /\ UNCHANGED result
  /\ UNCHANGED <<event, env, caller_ip, payload, user_input, engine,
                 response_text, ELIZA_STATE, eliza_setup, initRuns>>

\* json.loads(body): the decoded value, or an exception on malformed text
json_loads(body) ==
  IF body.k = "json" THEN [ok |-> TRUE, v |-> body.j] ELSE [ok |-> FALSE, v |-> None]

\* lines 295-302: the body is parsed
ParseBody ==
  /\ pc = "parse"
  /\ stages' = Append(stages, "PARSE")
  /\ LET body == event.body
     IN IF body.form = "text"
        THEN IF body.k = "empty"
             THEN payload' = EmptyDict /\ pc' = "auth" /\ UNCHANGED result
             ELSE IF json_loads(body).ok
                  THEN payload' = json_loads(body).v /\ pc' = "auth" /\ UNCHANGED result
                  ELSE /\ Finish(make_response(400, ErrorBody("Malformed JSON", "bad_request")))
                       /\ UNCHANGED payload
        ELSE /\ payload' = (IF Truthy(body.j) THEN body.j ELSE EmptyDict)
             /\ pc' = "auth"
             /\ UNCHANGED result
  /\ UNCHANGED <<event, env, caller_ip, user_input, engine, response_text,
                 ELIZA_STATE, eliza_setup, initRuns>>

\* f'Bearer {api_key}'
Bearer(api_key) == <<"Bearer ", api_key>>

\* line 308: not auth or not api_key or auth != f'Bearer {api_key}'
KeyRefused(auth, api_key) ==
  auth = <<>> \/ api_key = "" \/ auth # Bearer(api_key)

\* lines 304-309: the API-key check
ApiKeyCheck ==
  /\ pc = "auth"
  /\ stages' = Append(stages, "GATE_KEY")
  /\ LET auth == Or(event.headers.Authorization, event.headers.authorization, <<>>)
     IN IF FlagSet(env.REQUIRE_API_KEY) /\ KeyRefused(auth, env.API_KEY)
        THEN Finish(make_response(401, ErrorBody("Invalid or missing API key", "unauthorized")))
        ELSE pc' = "normalize" /\ UNCHANGED result
  /\ UNCHANGED <<event, env, caller_ip, payload, user_input, engine,
                 response_text, ELIZA_STATE, eliza_setup, initRuns>>

\* whether reversed(messages) raises TypeError
NotReversible(messages) == messages.t \in {"num", "bool"}

\* the elements reversed(messages) walks: of a list its entries, of a str its
\* characters, of a dict its keys
Elements(messages) ==
  IF IsList(messages) THEN messages.l
  ELSE IF IsStr(messages) THEN [i \in 1..Len(messages.s) |-> JStr(<<messages.s[i]>>)]
  ELSE IF IsDict(messages) THEN <<JStr(<<"k">>)>>
  ELSE <<>>

IsUserMsg(msg) ==
  /\ IsDict(msg)
  /\ IsStr(Get(msg, "role"))
  /\ Get(msg, "role").s = <<"user">>

\* the loop with the break outside the test of user_input: the last user
\* message decides, empty or not
LastUserInputNoSkip(msgs, i, cur) ==
  IF \E k \in 1..i : IsUserMsg(msgs[k])
  THEN LET k == CHOOSE k \in 1..i : IsUserMsg(msgs[k]) /\ \A m \in (k + 1)..i : ~IsUserMsg(msgs[m])
       IN extract_text_from_content(Get(msgs[k], "content"))
  ELSE cur

RECURSIVE LastUserInput(_, _, _)
\* lines 315-320: the loop from the last message (i) to the first; cur is
\* user_input so far
LastUserInput(msgs, i, cur) ==
  IF i = 0 THEN cur
  ELSE IF IsUserMsg(msgs[i])
       THEN LET u == extract_text_from_content(Get(msgs[i], "content"))
            IN IF u # <<>> THEN u ELSE LastUserInput(msgs, i - 1, u)
       ELSE LastUserInput(msgs, i - 1, cur)

\* lines 311-323: the last user message with text is extracted
Normalize ==
  /\ pc = "normalize"
  /\ stages' = Append(stages, "NORMALIZE")
  /\ IF ~IsDict(payload)
     THEN Finish(Raise("AttributeError")) /\ UNCHANGED user_input
     ELSE LET got == Get(payload, "messages")
              messages == IF Truthy(got) THEN got ELSE JList(<<>>)
          IN IF NotReversible(messages)
             THEN Finish(Raise("TypeError")) /\ UNCHANGED user_input
             ELSE LET u == LastUserInput(Elements(messages), Len(Elements(messages)), <<>>)
                  IN /\ user_input' = u
                     /\ IF u = <<>>
                        THEN Finish(make_response(400,
                                      ErrorBody("No user message provided", "bad_request")))
                        ELSE pc' = "engine" /\ UNCHANGED result
  /\ UNCHANGED <<event, env, caller_ip, payload, engine, response_text,
                 ELIZA_STATE, eliza_setup, initRuns>>

\* how a run of _init_eliza can end: the directory is not found (ImportError),
\* the modules do not load, eliza_setup raises, or the state is returned
InitOutcomes(loaded) ==
  IF loaded THEN {"setupfail", "ok"} ELSE {"notfound", "loadfail", "setupfail", "ok"}

\* get_eliza_state without the test of the cached state
MustInitAlways(cached) == TRUE

\* get_eliza_state: whether _init_eliza is run
MustInit(cached) == ~cached.set

\* line 325: get_eliza_state(), outside any try
GetElizaState ==
  /\ pc = "engine"
  /\ stages' = Append(stages, IF MustInit(ELIZA_STATE) THEN "ENGINE_INIT" ELSE "ENGINE_CACHED")
  /\ IF MustInit(ELIZA_STATE)
     THEN \E outcome \in InitOutcomes(eliza_setup) :
            /\ initRuns' = initRuns + 1
            /\ eliza_setup' = (eliza_setup \/ outcome \in {"setupfail", "ok"})
            /\ IF outcome = "ok"
               THEN /\ ELIZA_STATE' = [set |-> TRUE, gen |-> initRuns + 1]
                    /\ engine' = [set |-> TRUE, gen |-> initRuns + 1]
                    /\ pc' = "generate"
                    /\ UNCHANGED result
               ELSE /\ Finish(Raise(IF outcome = "notfound" THEN "ImportError" ELSE "Exception"))
                    /\ UNCHANGED <<ELIZA_STATE, engine>>
     ELSE /\ engine' = ELIZA_STATE
          /\ pc' = "generate"
          /\ UNCHANGED <<result, ELIZA_STATE, eliza_setup, initRuns>>
  /\ UNCHANGED <<event, env, caller_ip, payload, user_input, response_text>>

IsMarker(c) == c \in {"Eliza: ", "\nYou: "}
NotMarker(c) == ~IsMarker(c)

\* response_text.replace('Eliza: ', '').replace('\nYou: ', '')
Clean(raw) == SelectSeq(raw, NotMarker)

\* lines 328-334: generate_response, inside the try
Generate(outcomes) ==
  /\ pc = "generate"
  /\ stages' = Append(stages, "ENGINE_REPLY")
  /\ \E o \in outcomes :
       IF o.raise
       THEN /\ Finish(make_response(500,
                        ErrorBody("Internal error generating response", "server_error")))
            /\ UNCHANGED response_text
       ELSE /\ response_text' = Clean(o.raw)
            /\ pc' = "encode"
            /\ UNCHANGED result
  /\ UNCHANGED <<event, env, caller_ip, payload, user_input, engine,
                 ELIZA_STATE, eliza_setup, initRuns>>

\* line 382: payload.get('stream') is True or payload.get('stream') == 'true'
StreamRequested(p) ==
  LET v == Get(p, "stream")
  IN (v.t = "bool" /\ v.b) \/ (v.t = "str" /\ v.s = <<"t", "r", "u", "e">>)

\* lines 388-392: int(chunk_size_env) if chunk_size_env else 64, 64 on an exception
ChunkSize(chunk_size_env) ==
  IF chunk_size_env.k = "int" THEN chunk_size_env.n ELSE DefaultChunkSize

\* lines 339-341 and 370-374
Usage(prompt, reply) ==
  [prompt_tokens |-> estimate_tokens(prompt),
   completion_tokens |-> estimate_tokens(reply),
   total_tokens |-> estimate_tokens(prompt) + estimate_tokens(reply)]

\* lines 394-402
SseResponse(sse_body) ==
  [kind |-> "response", statusCode |-> 200,
   headers |-> [ContentType |-> "text/event-stream; charset=utf-8",
                CacheControl |-> "no-cache"],
   body |-> [NoBody EXCEPT !.sse = sse_body], exc |-> ""]

\* lines 336-404: the usage is estimated and the response encoded
Encode ==
  /\ pc = "encode"
  /\ stages' = Append(stages, "ENCODE")
  /\ IF StreamRequested(payload)
     THEN LET sse == build_sse_body(response_text, ChunkSize(env.SSE_CHUNK_SIZE))
          IN IF sse.raised THEN Finish(Raise("ValueError"))
             ELSE Finish(SseResponse(sse.body))
     ELSE Finish(make_response(200,
            [NoBody EXCEPT !.content = response_text,
                           !.usage = Usage(user_input, response_text)]))
  /\ UNCHANGED <<event, env, caller_ip, payload, user_input, engine,
                 response_text, ELIZA_STATE, eliza_setup, initRuns>>

\* the invocation is over; the module globals stay for the next one
Return ==
  /\ pc = "done"
  /\ pc' = "idle"
  /\ event' = NoEvent
  /\ env' = NoEnv
  /\ caller_ip' = Field(FALSE, EmptyIp)
  /\ payload' = None
  /\ user_input' = <<>>
  /\ engine' = NoState
  /\ response_text' = <<>>
  /\ result' = NoResult
  /\ stages' = <<>>
  /\ UNCHANGED <<ELIZA_STATE, eliza_setup, initRuns>>

(***************************************************************************)
(* The inputs: events, configurations and what the engine returns.         *)
(***************************************************************************)
Ip1234 == IpLit("v4", <<1, 2, 3, 4>>)
Ip10123 == IpLit("v4", <<10, 1, 2, 3>>)
IpV6One == IpLit("v6", <<0, 0, 0, 0, 0, 0, 0, 1>>)
IpJunk == IpLit("junk", <<>>)
Net10 == CidrLit(IpLit("v4", <<10, 0, 0, 0>>), 8)

Source(ip) == [has |-> TRUE, ip |-> Field(FALSE, ip)]
TextBody(k, j) == [form |-> "text", k |-> k, j |-> j]
StructBody(j) == [form |-> "struct", k |-> "", j |-> j]
UserMsg(s) == JMsg(JStr(<<"user">>), JStr(s))

\* an API Gateway v2 event: no forwarded-for header, the source IP under http
HttpEvent(ip, auth, body) ==
  [headers |-> [XForwardedFor |-> EmptyXff, xforwardedfor |-> EmptyXff,
                Authorization |-> auth, authorization |-> <<>>],
   http |-> Source(ip), identity |-> NoSource, body |-> body]

Config(cidrs, require, key, chunk) ==
  [ALLOWED_CALLER_CIDR |-> cidrs, REQUIRE_API_KEY |-> require,
   API_KEY |-> key, SSE_CHUNK_SIZE |-> chunk]

ChunkUnset == [k |-> "unset", n |-> 0]
ChunkJunk == [k |-> "junk", n |-> 0]
ChunkInt(n) == [k |-> "int", n |-> n]

Replied(raw) == [raise |-> FALSE, raw |-> raw]
Raised == [raise |-> TRUE, raw |-> <<>>]

HelloBody == TextBody("json", JDict(JList(<<UserMsg(<<"a">>)>>), None))

Bodies ==
  {TextBody("empty", None), TextBody("malformed", None),
   TextBody("json", JList(<<>>)), TextBody("json", None), StructBody(None),
   StructBody(JDict(JList(<<UserMsg(<<"a">>)>>), None))}
  \cup {TextBody("json", JDict(m, st)) :
          m \in {None, JNum(5), JList(<<UserMsg(<<"a", " ", "a">>)>>)},
          st \in {None, JBool(TRUE)}}

Events ==
  {HttpEvent(ip, auth, body) :
     ip \in {Ip1234, Ip10123},
     auth \in {<<>>, Bearer("secret"), Bearer("wrong")},
     body \in Bodies}
  \cup {[HttpEvent(Ip1234, auth, HelloBody) EXCEPT !.headers.authorization = Bearer("secret")] :
          auth \in {<<>>, Bearer("wrong")}}

Envs ==
  {Config(cidrs, rk[1], rk[2], chunk) :
     cidrs \in {EmptyCsv, <<Field(FALSE, Net10)>>},
     rk \in {<<"false", "">>, <<"true", "secret">>, <<"True", "">>},
     chunk \in {ChunkUnset, ChunkInt(0), ChunkInt(2)}}

Replies ==
  {Raised, Replied(<<>>), Replied(<<"Eliza: ", "a", " ", "a", "\nYou: ">>)}

\* every text of at most n symbols of S
Texts(S, n) == UNION {[1..k -> S] : k \in 0..n}

\* every list of 1 to n entries of S
Lists(S, n) == UNION {[1..k -> S] : k \in 1..n}

AllowAll == <<Field(FALSE, AllowAllLit)>>
OnlyReply == {Replied(<<"Eliza: ", "a">>)}

\* the access gate: the shapes of the caller's IP and of the allow-list
GateEvents ==
  {HttpEvent(ip, <<>>, HelloBody) : ip \in {Ip1234, Ip10123, IpV6One, IpJunk}}
  \cup {[NoEvent EXCEPT !.body = HelloBody],
        [NoEvent EXCEPT !.body = HelloBody, !.identity = Source(Ip10123)],
        [NoEvent EXCEPT !.body = HelloBody,
                        !.http = [has |-> TRUE, ip |-> Field(TRUE, Ip10123)]],
        [NoEvent EXCEPT !.body = HelloBody,
                        !.http = Source(Ip1234),
                        !.headers.xforwardedfor =
                           <<Field(TRUE, Ip10123), Field(FALSE, Ip1234)>>]}

CidrFields ==
  {Field(FALSE, EmptyCidr), Field(FALSE, AllowAllLit), Field(TRUE, AllowAllLit),
   Field(TRUE, CidrLit(IpLit("v4", <<10, 0, 0, 1>>), 8)),
   Field(FALSE, CidrLit(IpJunk, -1))}

GateEnvs ==
  {Config(cidrs, "false", "", ChunkUnset) : cidrs \in Lists(CidrFields, MaxCidrs)}

\* the normalizer: the message lists
Image == JPart(None, None, None)
TextPart(s) == JPart(JStr(s), None, None)

MsgPool ==
  {JStr(<<"a">>),
   UserMsg(<<"a">>), UserMsg(<<"b">>), UserMsg(<<>>), UserMsg(<<" ">>),
   JMsg(JStr(<<"user">>), None),
   JMsg(JStr(<<"user">>), JList(<<JStr(<<" ">>)>>)),
   JMsg(JStr(<<"user">>), JList(<<TextPart(<<"b">>), Image>>)),
   JMsg(JStr(<<"user">>), JList(<<JStr(<<"a">>), JStr(<<>>), JStr(<<"b">>)>>)),
   JMsg(JStr(<<"assistant">>), JStr(<<"a">>)),
   JMsg(JStr(<<"system">>), JStr(<<"b">>))}

NormEvents ==
  {HttpEvent(Ip1234, <<>>, TextBody("json", JDict(m, None))) :
     m \in {None, JList(<<>>)} \cup {JList(l) : l \in Lists(MsgPool, MaxMsgs)}}

NormEnvs == {Config(AllowAll, "false", "", ChunkUnset)}

\* the encoder: utterances, replies, the stream flag and the chunk size
EncEvents ==
  {HttpEvent(Ip1234, <<>>, TextBody("json", JDict(JList(<<UserMsg(u)>>), st))) :
     u \in {<<"a">>, <<"a", " ", "a">>, <<"a", " ", "a", "\n", "a">>, <<" ">>},
     st \in {None, JBool(TRUE), JStr(<<"t", "r", "u", "e">>), JBool(FALSE)}}

EncEnvs ==
  {Config(AllowAll, "false", "", chunk) :
     chunk \in {ChunkUnset, ChunkJunk, ChunkInt(1), ChunkInt(2), ChunkInt(3)}}

EncReplies == {Replied(raw) : raw \in Texts({"a", "\n"}, MaxReplyLen)}

(***************************************************************************)
(* The process: invocations one after another, as the runtime delivers     *)
(* them to one execution environment.                                      *)
(***************************************************************************)
Next ==
  \/ \E e \in Events, c \in Envs : Start(e, c)
  \/ IpCheck
  \/ ParseBody
  \/ ApiKeyCheck
  \/ Normalize
  \/ GetElizaState
  \/ Generate(Replies)
  \/ Encode
  \/ Return

Spec == Init /\ [][Next]_vars

\* the same handler, fed the inputs that exercise one stage in depth
Pipeline(events, envs, replies) ==
  \/ \E e \in events, c \in envs : Start(e, c)
  \/ IpCheck
  \/ ParseBody
  \/ ApiKeyCheck
  \/ Normalize
  \/ GetElizaState
  \/ Generate(replies)
  \/ Encode
  \/ Return

NextGate == Pipeline(GateEvents, GateEnvs, OnlyReply)
SpecGate == Init /\ [][NextGate]_vars

NextNorm == Pipeline(NormEvents, NormEnvs, OnlyReply)
SpecNorm == Init /\ [][NextNorm]_vars

NextEnc == Pipeline(EncEvents, EncEnvs, EncReplies)
SpecEnc == Init /\ [][NextEnc]_vars


(***************************************************************************)
(* What a finished invocation shows.                                       *)
(***************************************************************************)
Last(s) == s[Len(s)]
Ran(stage) == \E i \in 1..Len(stages) : stages[i] = stage
EngineTouched == Ran("ENGINE_INIT") \/ Ran("ENGINE_CACHED") \/ Ran("ENGINE_REPLY")

IsError(r, status, type) ==
  /\ r.kind = "response"
  /\ r.statusCode = status
  /\ r.body.error.type = type

IpPasses == ip_allowed(caller_ip, env.ALLOWED_CALLER_CIDR)
AuthHeader == Or(event.headers.Authorization, event.headers.authorization, <<>>)
KeyExact == env.API_KEY # "" /\ AuthHeader = <<"Bearer ", env.API_KEY>>

\* the position of a stage in START, GATE, PARSE, NORMALIZE, ENGINE, ENCODE
StageRank(stage) ==
  CASE stage \in {"GATE_IP", "GATE_KEY"} -> 1
    [] stage = "PARSE" -> 2
    [] stage = "NORMALIZE" -> 3
    [] stage \in {"ENGINE_INIT", "ENGINE_CACHED", "ENGINE_REPLY"} -> 4
    [] OTHER -> 5

(***************************************************************************)
(* C1: every invocation ends with one HTTP-shaped result whose status is   *)
(* 200, 400, 401, 403 or 500 and whose error type, when not 200, is one of *)
(* forbidden, bad_request, unauthorized, server_error; no exception leaves *)
(* lambda_handler.                                                         *)
(***************************************************************************)
C1_AlwaysHttpResult ==
  pc = "done" =>
    /\ result.kind = "response"
    /\ result.statusCode \in {200, 400, 401, 403, 500}
    /\ result.statusCode # 200 =>
         result.body.error.type \in {"forbidden", "bad_request", "unauthorized", "server_error"}

(***************************************************************************)
(* C2: when a request reached the engine and the initialization of the     *)
(* engine or generate_response failed, the handler returns HTTP 500 with   *)
(* type server_error and the generic message.                              *)
(***************************************************************************)
C2_EngineFailureIs500 ==
  (pc = "done" /\ stages # <<>> /\ Last(stages) \in {"ENGINE_INIT", "ENGINE_REPLY"}) =>
    result = make_response(500, ErrorBody("Internal error generating response", "server_error"))

(***************************************************************************)
(* C3: the stages run in the order GATE, PARSE, NORMALIZE, ENGINE, ENCODE, *)
(* GATE being the IP check and the API-key check: a request refused by the *)
(* API-key check is answered 401 whatever its body, a request refused by   *)
(* the IP check 403 whatever its body and Authorization header.            *)
(***************************************************************************)
C3_GateBeforeParse ==
  /\ \A i, j \in 1..Len(stages) : i < j => StageRank(stages[i]) <= StageRank(stages[j])
  /\ (pc = "done" /\ ~IpPasses) => IsError(result, 403, "forbidden")
  /\ (pc = "done" /\ IpPasses /\ FlagSet(env.REQUIRE_API_KEY) /\ ~KeyExact) =>
       IsError(result, 401, "unauthorized")

(***************************************************************************)
(* C5: with API-key enforcement enabled, a request reaches the normalizer  *)
(* and the engine only if its Authorization header is exactly Bearer and   *)
(* the configured key; every other request that passed the allow-list gets *)
(* the same 401 response, whether the header is missing or the token       *)
(* differs.                                                                *)
(***************************************************************************)
C5_KeyEnforced ==
  FlagSet(env.REQUIRE_API_KEY) =>
    /\ (Ran("NORMALIZE") \/ EngineTouched) => KeyExact
    /\ (pc = "done" /\ IpPasses /\ ~KeyExact) =>
         result = make_response(401, ErrorBody("Invalid or missing API key", "unauthorized"))

InsideSomeEntry(ip, allowed_cidrs) ==
  /\ ip_address(ip).ok
  /\ \E i \in 1..Len(allowed_cidrs) :
       /\ ip_network(allowed_cidrs[i].core).ok
       /\ InNet(ip_address(ip), ip_network(allowed_cidrs[i].core))

Denied403 ==
  /\ pc = "done"
  /\ result = make_response(403, ErrorBody("Caller IP not allowed", "forbidden"))

C4_AllowedIffLiteral ==
  Ran("GATE_IP") =>
    (~Denied403 <=>
       \/ env.ALLOWED_CALLER_CIDR = EmptyCsv
       \/ env.ALLOWED_CALLER_CIDR = <<Field(FALSE, AllowAllLit)>>
       \/ InsideSomeEntry(caller_ip, env.ALLOWED_CALLER_CIDR))

(***************************************************************************)
(* C4, amended: ip_allowed allows exactly when the allow-list is empty or, *)
(* with the whitespace around it removed, is the literal 0.0.0.0/0, or the *)
(* caller IP parses and lies inside an entry that parses as a CIDR block   *)
(* (entries that do not parse are skipped); a denial is answered 403       *)
(* forbidden, and nothing else is.                                         *)
(***************************************************************************)
C4_AllowedIffTrimmedLiteral ==
  Ran("GATE_IP") =>
    (~Denied403 <=>
       \/ env.ALLOWED_CALLER_CIDR = EmptyCsv
       \/ /\ Len(env.ALLOWED_CALLER_CIDR) = 1
          /\ env.ALLOWED_CALLER_CIDR[1].core = AllowAllLit
       \/ InsideSomeEntry(caller_ip, env.ALLOWED_CALLER_CIDR))

\* a caller let in by a valid entry that follows an entry that does not parse
C4_Witness ==
  /\ Ran("GATE_IP")
  /\ ~Denied403
  /\ Len(env.ALLOWED_CALLER_CIDR) = 2
  /\ env.ALLOWED_CALLER_CIDR[1].core # EmptyCidr
  /\ ~ip_network(env.ALLOWED_CALLER_CIDR[1].core).ok
  /\ ip_network(env.ALLOWED_CALLER_CIDR[2].core).ok
  /\ env.ALLOWED_CALLER_CIDR[2].core # AllowAllLit
  /\ InsideSomeEntry(caller_ip, env.ALLOWED_CALLER_CIDR)

(***************************************************************************)
(* C6: the utterance handed to the engine is the normalized text of the    *)
(* most recent user message whose normalized content is not empty, the     *)
(* other entries being skipped wherever they are; when there is none, or   *)
(* no messages, the handler returns 400 bad_request 'No user message       *)
(* provided' and neither initializes nor calls the engine.                 *)
(***************************************************************************)
MessageList ==
  IF IsList(Get(payload, "messages")) THEN Get(payload, "messages").l ELSE <<>>

Qualifies(msg) ==
  /\ msg.t = "msg"
  /\ msg.role = JStr(<<"user">>)
  /\ extract_text_from_content(msg.content) # <<>>

C6_LatestUserUtterance ==
  (Ran("NORMALIZE") /\ IsDict(payload) /\ Get(payload, "messages").t \in {"null", "list"}) =>
    IF \E i \in 1..Len(MessageList) : Qualifies(MessageList[i])
    THEN /\ \E i \in 1..Len(MessageList) :
              /\ Qualifies(MessageList[i])
              /\ \A j \in (i + 1)..Len(MessageList) : ~Qualifies(MessageList[j])
              /\ user_input = extract_text_from_content(MessageList[i].content)
         /\ ~IsError(result, 400, "bad_request")
    ELSE /\ pc = "done"
         /\ result = make_response(400, ErrorBody("No user message provided", "bad_request"))
         /\ ~EngineTouched
         /\ engine = NoState

\* an earlier user message is handed to the engine, past a later user message
\* that normalizes to nothing
C6_Witness ==
  /\ pc = "generate"
  /\ Len(MessageList) = 2
  /\ Qualifies(MessageList[1])
  /\ IsUserMsg(MessageList[2])
  /\ ~Qualifies(MessageList[2])
  /\ user_input = extract_text_from_content(MessageList[1].content)

(***************************************************************************)
(* C7: of a list content, _extract_text_from_content returns the resolved  *)
(* pieces that are not empty, joined by one space each, and trimmed.       *)
(***************************************************************************)
NonEmpty(piece) == piece # <<>>

C7_NonEmptyPiecesSingleSpaced ==
  Ran("NORMALIZE") =>
    \A i \in 1..Len(MessageList) :
      (MessageList[i].t = "msg" /\ IsList(MessageList[i].content)) =>
        extract_text_from_content(MessageList[i].content)
          = strip(join(<<" ">>, SelectSeq(ListPieces(MessageList[i].content.l), NonEmpty)))

(***************************************************************************)
(* C8, as stated: estimate_tokens gives 0 for the empty text and otherwise *)
(* max(1, round(w * 1.33)) for w words; a 200 response that is not a       *)
(* stream carries the estimates of the utterance and of the reply, and     *)
(* their sum.                                                              *)
(***************************************************************************)
\* the words of a text: the places where a run of non-whitespace starts
WordCount(text) ==
  Cardinality({i \in 1..Len(text) :
                 ~IsSpace(text[i]) /\ (i = 1 \/ IsSpace(text[i - 1]))})

RoundEstimate(text) ==
  IF text = <<>> THEN 0 ELSE Max(1, (WordCount(text) * 133 + 50) \div 100)

FloorEstimate(text) ==
  IF text = <<>> THEN 0 ELSE Max(1, (WordCount(text) * 133) \div 100)

Completion200 ==
  /\ pc = "done"
  /\ result.kind = "response"
  /\ result.statusCode = 200
  /\ result.headers.ContentType = "application/json"

EventEnd(body) ==
  IF \E i \in 1..(Len(body) - 1) : body[i] = "\n" /\ body[i + 1] = "\n"
  THEN CHOOSE i \in 1..(Len(body) - 1) :
         /\ body[i] = "\n" /\ body[i + 1] = "\n"
         /\ \A j \in 1..(i - 1) : ~(body[j] = "\n" /\ body[j + 1] = "\n")
  ELSE 0

RECURSIVE SseEvents(_)
\* what a client reads: the events of a body, each without its blank line
SseEvents(body) ==
  IF body = <<>> THEN <<>>
  ELSE IF EventEnd(body) = 0 THEN <<body>>
  ELSE <<SubSeq(body, 1, EventEnd(body) - 1)>>
         \o SseEvents(SubSeq(body, EventEnd(body) + 2, Len(body)))

RECURSIVE JsonUnescape(_)
JsonUnescape(s) ==
  IF s = <<>> THEN <<>>
  ELSE IF Head(s) = "\\" /\ Len(s) >= 2
       THEN <<(IF s[2] = "n" THEN "\n" ELSE s[2])>> \o JsonUnescape(SubSeq(s, 3, Len(s)))
       ELSE <<Head(s)>> \o JsonUnescape(Tail(s))

IsChunkEvent(ev) ==
  Len(ev) >= 3 /\ ev[1] = "data: " /\ ev[2] = "{" /\ ev[Len(ev)] = "}"

\* choices[0].delta.content of a chunk event
DeltaContent(ev) == JsonUnescape(SubSeq(ev, 3, Len(ev) - 1))

RECURSIVE ConcatDeltas(_, _)
ConcatDeltas(events, n) ==
  IF n = 0 THEN <<>> ELSE ConcatDeltas(events, n - 1) \o DeltaContent(events[n])

Stream200 ==
  /\ pc = "done"
  /\ result.kind = "response"
  /\ result.statusCode = 200
  /\ result.headers.ContentType = "text/event-stream; charset=utf-8"

C9_ChunksRebuildReply ==
  (Stream200 /\ ChunkSize(env.SSE_CHUNK_SIZE) >= 1) =>
    LET C == ChunkSize(env.SSE_CHUNK_SIZE)
        L == Len(response_text)
        events == SseEvents(result.body.sse)
        n == Len(events) - 1
    IN /\ n = (L + C - 1) \div C
       /\ events[n + 1] = <<"data: ", "[DONE]">>
       /\ \A i \in 1..n : IsChunkEvent(events[i])
       /\ \A i \in 1..(n - 1) : Len(DeltaContent(events[i])) = C
       /\ \A i \in 1..n :
            DeltaContent(events[i]) = SubSeq(response_text, (i - 1) * C + 1, Min(i * C, L))
       /\ ConcatDeltas(events, n) = response_text

\* a reply of three characters, with a line break, in chunks of two
C9_Witness ==
  /\ Stream200
  /\ ChunkSize(env.SSE_CHUNK_SIZE) = 2
  /\ Len(response_text) = 3
  /\ \E i \in 1..3 : response_text[i] = "\n"
  /\ Len(SseEvents(result.body.sse)) = 3

====
